---- MODULE Spec2Model ----
(***************************************************************************)
(* tobytes: a MessagePack codec with an intern table (extension 6) and     *)
(* namespaced custom types (extension 8).                                  *)
(*                                                                         *)
(* Python objects and MessagePack wire values are both trees of nodes      *)
(* [k, n, s]: k is the kind, n a scalar, s the children.  The two domains  *)
(* use different kinds, so packing and unpacking are real translations:    *)
(*   Python  None int str list dict bytes Intern object ExtType            *)
(*   wire    nil integer string array map ext                              *)
(* A byte string is the sequence of the MessagePack values serialised in   *)
(* it, back to back; an ext payload is such a byte string.  A dict or map  *)
(* keeps its pairs flat, <<k1, v1, k2, v2, ...>>.                          *)
(***************************************************************************)
EXTENDS Integers, Sequences, FiniteSets, TLC

VARIABLES
    namespaces,       \* Codec.namespaces, in insertion order
    _type_map,        \* Codec._type_map, the index keyed on concrete type
    _intern_context,  \* Codec._intern_context: [active, table]
    op,               \* the caller's position: "idle" or the call that returned
    ok,               \* whether that call returned (TRUE) or raised (FALSE)
    obj,              \* the Python value given to dumps / returned by loads
    data,             \* the bytes returned by dumps / given to loads
    started,          \* how many InternTable objects that call created
    leftover,         \* how many entries the table that call found in the
                      \* context held, None when it found no table
    namespace_module  \* the NamespaceModule the caller builds: [name, codecs]

vars == <<namespaces, _type_map, _intern_context, op, ok, obj, data, started, leftover,
          namespace_module>>

INTERN_TABLE_EXT == 6
CUSTOM_TYPE_EXT == 8

Node(k, n, s) == [k |-> k, n |-> n, s |-> s]

----------------------------------------------------------------------------
(* Python values                                                           *)

PyNone == Node("None", 0, <<>>)
PyInt(i) == Node("int", i, <<>>)
PyStr(t) == Node("str", t, <<>>)
PyList(items) == Node("list", 0, items)
PyDict(pairs) == Node("dict", 0, pairs)
PyBytes(b) == Node("bytes", 0, b)
ExtType(code, payload) == Node("ExtType", code, payload)

\* An instance of a user class; the classes of the tests hold one attribute.
Object(py_type, value) == Node("object", py_type, <<value>>)

\* Intern(value, by_identity).  n is id(value) when by_identity: the object
\* is the copy-th of the equal objects with this value, so that two wrappers
\* with one id wrap one object.  When comparing by equality id(value) is
\* never read and n is <<>>.
Intern(value, by_id, copy) ==
    Node("Intern", IF by_id THEN <<copy, value>> ELSE <<>>, <<value>>)

by_identity(w) == w.n # <<>>

\* the classes of the tests: Bill is a subclass of Bob
Bases(py_type) == IF py_type = "Bill" THEN {"Bill", "Bob"} ELSE {py_type}

\* the classes c with isinstance(c(), py_type)
Subclasses(py_type) ==
    {c \in {"MyType", "AnotherType", "Bob", "Bill"} : py_type \in Bases(c)}

\* What the exception left in place of a result.
Raised == Node("<raised>", 0, <<>>)

\* The same for the two ValueErrors of Codec._ext_hook, told apart by their
\* messages.
RaisedWith(message) == Node("<raised>", 0, <<PyStr(message)>>)
UnknownNamespace == RaisedWith("Unknown namespace")
UnknownTypeId == RaisedWith("Unknown type_id")

----------------------------------------------------------------------------
(* Wire values                                                             *)

Nil == Node("nil", 0, <<>>)
Integer(i) == Node("integer", i, <<>>)
String(t) == Node("string", t, <<>>)
Array(items) == Node("array", 0, items)
Map(pairs) == Node("map", 0, pairs)
Ext(code, payload) == Node("ext", code, payload)

----------------------------------------------------------------------------
(* Results of the recursive steps: the context as the step left it and     *)
(* what it returned, or ok = FALSE when it raised.                         *)

Ok(st, out) == [ok |-> TRUE, st |-> st, out |-> out]
Fail(st) == [ok |-> FALSE, st |-> st, out |-> Raised]
FailWith(st, exception) == [ok |-> FALSE, st |-> st, out |-> exception]

None == -1

NewTable == [table |-> <<>>, originals |-> <<>>, by_id |-> <<>>]

\* A Python dict, kept as its [key, val] items in insertion order.
HasKey(d, key) == \E i \in 1..Len(d) : d[i].key = key

DictGet(d, key) == d[CHOOSE i \in 1..Len(d) : d[i].key = key].val

DictSet(d, key, val) ==
    IF HasKey(d, key)
    THEN [i \in 1..Len(d) |-> IF d[i].key = key THEN [key |-> key, val |-> val] ELSE d[i]]
    ELSE Append(d, [key |-> key, val |-> val])

RECURSIVE Concat(_)
Concat(seqs) == IF seqs = <<>> THEN <<>> ELSE Head(seqs) \o Concat(Tail(seqs))

----------------------------------------------------------------------------
(* InternContext.  While a call runs, the context is [active, table, heap]: *)
(* heap holds every InternTable object made so far and table points at the  *)
(* one the context holds (0 for None), because a frame of the call stack    *)
(* can keep using a table object the context has already dropped.           *)

Enter(ctx) == [active |-> ctx.active, table |-> Len(ctx.table), heap |-> ctx.table]

Leave(st) ==
    [active |-> st.active,
     table |-> IF st.table = 0 THEN <<>> ELSE <<st.heap[st.table]>>]

start_table(st) ==
    IF st.active
    THEN Fail(st)
    ELSE Ok([active |-> TRUE, table |-> Len(st.heap) + 1,
             heap |-> Append(st.heap, NewTable)], PyNone)

end_table(st) == [st EXCEPT !.table = 0, !.active = FALSE]

is_active(st) == st.active

ensure_table(st) == IF ~st.active THEN start_table(st) ELSE Ok(st, PyNone)

create_reference(index) == ExtType(INTERN_TABLE_EXT, <<Integer(index)>>)

\* InternTable._find; key is id(value)
_find(T, value, key, by_id) ==
    IF by_id
    THEN IF HasKey(T.by_id, key) THEN DictGet(T.by_id, key) ELSE None
    ELSE IF \E i \in 1..Len(T.originals) : T.originals[i] = value
         THEN (CHOOSE i \in 1..Len(T.originals) :
                  /\ T.originals[i] = value
                  /\ \A j \in 1..(i - 1) : T.originals[j] # value) - 1
         ELSE None

\* mutant: the entry blobs are written last entry first
get_bytes_reversed(T) ==
    LET n == Len(T.table)
        rest == Concat([i \in 1..n |-> T.table[n + 1 - i].s])
    IN  <<Array(SubSeq(rest, 1, n))>> \o SubSeq(rest, n + 1, Len(rest))

\* InternTable.get_bytes: the array header for len(self.table) elements and
\* the entry blobs after it; a reader of the array takes the next n values
get_bytes(T) ==
    LET n == Len(T.table)
        rest == Concat([i \in 1..n |-> T.table[i].s])
    IN  <<Array(SubSeq(rest, 1, n))>> \o SubSeq(rest, n + 1, Len(rest))

maybe_wrap_with_table(st, data_bytes) ==
    LET wrap == st.active /\ st.table # 0 /\ Len(st.heap[st.table].table) > 0
        out == IF wrap
               THEN <<Ext(INTERN_TABLE_EXT, get_bytes(st.heap[st.table]) \o data_bytes)>>
               ELSE data_bytes
    IN  Ok(IF st.active THEN end_table(st) ELSE st, out)

----------------------------------------------------------------------------
(* Encoding: Codec.dumps, the packer and its default hook                  *)

RECURSIVE packb(_, _, _), pack_items(_, _, _, _), _default_encoder(_, _, _),
          InternTable_intern(_, _, _, _), dumps_(_, _, _)

\* msgpack.packb(obj, default=self._default_encoder, strict_types=True)
packb(self, o, st) ==
    CASE o.k = "None" -> Ok(st, <<Nil>>)
      [] o.k = "int" -> Ok(st, <<Integer(o.n)>>)
      [] o.k = "str" -> Ok(st, <<String(o.n)>>)
      [] o.k = "list" ->
            LET r == pack_items(self, o.s, 1, st) IN
            IF r.ok THEN Ok(r.st, <<Array(r.out)>>) ELSE r
      [] o.k = "dict" ->
            LET r == pack_items(self, o.s, 1, st) IN
            IF r.ok THEN Ok(r.st, <<Map(r.out)>>) ELSE r
      [] o.k = "ExtType" -> Ok(st, <<Ext(o.n, o.s)>>)
      [] OTHER ->
            LET d == _default_encoder(self, o, st) IN
            IF d.ok THEN Ok(d.st, <<Ext(d.out.n, d.out.s)>>) ELSE d

\* the elements of a list (the keys and values of a dict) are packed in order
pack_items(self, items, i, st) ==
    IF i > Len(items)
    THEN Ok(st, <<>>)
    ELSE LET r == packb(self, items[i], st) IN
         IF ~r.ok THEN r
         ELSE LET rest == pack_items(self, items, i + 1, r.st) IN
              IF rest.ok THEN Ok(rest.st, r.out \o rest.out) ELSE rest

\* InternTable.intern, on the table object heap[t]
InternTable_intern(self, t, intern_wrapper, st) ==
    LET value == intern_wrapper.s[1]
        existing_idx == _find(st.heap[t], value, intern_wrapper.n, by_identity(intern_wrapper))
    IN  IF existing_idx # None
        THEN Ok(st, create_reference(existing_idx))
        ELSE LET e == packb(self, value, st) IN
             IF ~e.ok THEN e
             ELSE LET T == e.st.heap[t]
                      idx == Len(T.table)
                      T2 == [table |-> Append(T.table, PyBytes(e.out)),
                             originals |-> Append(T.originals, value),
                             by_id |-> IF by_identity(intern_wrapper)
                                       THEN DictSet(T.by_id, intern_wrapper.n, idx)
                                       ELSE T.by_id]
                  IN  Ok([e.st EXCEPT !.heap[t] = T2], create_reference(idx))

\* InternContext.intern
InternContext_intern(self, intern_wrapper, st) ==
    LET e == ensure_table(st) IN
    IF ~e.ok THEN e ELSE InternTable_intern(self, e.st.table, intern_wrapper, e.st)

\* Codec._encode_custom_type with the encoder of the tests, enc.dumps(obj.value)
_encode_custom_type(self, namespace, type_id, o, st) ==
    LET e == dumps_(self, o.s[1], st) IN
    IF ~e.ok THEN e
    ELSE Ok(e.st, ExtType(CUSTOM_TYPE_EXT, <<String(namespace), Integer(type_id)>> \o e.out))

\* the first catch-all namespace, in insertion order, whose matches(obj) is true
FirstCatchAll(self, o) ==
    LET hits == {i \in 1..Len(self.namespaces) :
                    self.namespaces[i].catchall /\ o.n \in self.namespaces[i].matches}
    IN  IF hits = {} THEN 0 ELSE CHOOSE i \in hits : \A j \in hits : i <= j

\* mutant: an entry for a class also takes the instances of its subclasses
_default_encoder_isinstance(self, o, st) ==
    IF o.k = "Intern"
    THEN InternContext_intern(self, o, st)
    ELSE IF o.k = "object" /\ \E b \in Bases(o.n) : HasKey(self._type_map, b)
    THEN LET hit == DictGet(self._type_map,
                            CHOOSE b \in Bases(o.n) : HasKey(self._type_map, b)) IN
         _encode_custom_type(self, hit.namespace, hit.type_id, o, st)
    ELSE IF o.k = "object" /\ FirstCatchAll(self, o) # 0
    THEN _encode_custom_type(self, self.namespaces[FirstCatchAll(self, o)].name, 0, o, st)
    ELSE Fail(st)

\* Codec._default_encoder.  The index is keyed on type(obj), so an entry
\* takes the instances of its own class only.
_default_encoder(self, o, st) ==
    IF o.k = "Intern"
    THEN InternContext_intern(self, o, st)
    ELSE IF o.k = "object" /\ HasKey(self._type_map, o.n)
    THEN LET hit == DictGet(self._type_map, o.n) IN
         _encode_custom_type(self, hit.namespace, hit.type_id, o, st)
    ELSE IF o.k = "object" /\ FirstCatchAll(self, o) # 0
    THEN _encode_custom_type(self, self.namespaces[FirstCatchAll(self, o)].name, 0, o, st)
    ELSE Fail(st)

\* mutant: a table left in the context by an earlier call is kept
dumps_keeping_leftover(self, o, st) ==
    LET d == packb(self, o, st)
    IN  IF ~d.ok THEN d ELSE maybe_wrap_with_table(d.st, d.out)

\* Codec.dumps
dumps_(self, o, st) ==
    LET st1 == IF st.active THEN end_table(st) ELSE st
        d == packb(self, o, st1)
    IN  IF ~d.ok THEN d ELSE maybe_wrap_with_table(d.st, d.out)

----------------------------------------------------------------------------
(* Decoding: Codec.loads, the unpacker and its extension hook              *)

\* What msgpack.Unpacker(raw=False) accepts without an ext_hook: with the
\* default strict_map_key=True a map key must decode to str (or bytes), and
\* an ext record decodes to an ExtType, which is neither.
RECURSIVE RawOk(_)
RawOk(w) ==
    CASE w.k = "array" -> \A i \in 1..Len(w.s) : RawOk(w.s[i])
      [] w.k = "map" -> /\ \A i \in 1..Len(w.s) : RawOk(w.s[i])
                        /\ \A i \in 1..Len(w.s) : i % 2 = 1 => w.s[i].k = "string"
      [] OTHER -> TRUE

RECURSIVE unpack(_, _, _), unpack_items(_, _, _, _, _), _ext_hook(_, _, _, _),
          load(_, _, _, _), loads_(_, _, _)

\* msgpack.unpackb(data, ext_hook=self._ext_hook, raw=False): exactly one value
unpackb(self, bytes, st) ==
    IF Len(bytes) # 1 THEN Fail(st) ELSE unpack(self, bytes[1], st)

\* one value of the stream, with the hook; strict_map_key=True is the default
unpack(self, w, st) ==
    CASE w.k = "nil" -> Ok(st, PyNone)
      [] w.k = "integer" -> Ok(st, PyInt(w.n))
      [] w.k = "string" -> Ok(st, PyStr(w.n))
      [] w.k = "array" ->
            LET r == unpack_items(self, w.s, 1, st, FALSE) IN
            IF r.ok THEN Ok(r.st, PyList(r.out)) ELSE r
      [] w.k = "map" ->
            LET r == unpack_items(self, w.s, 1, st, TRUE) IN
            IF r.ok THEN Ok(r.st, PyDict(r.out)) ELSE r
      [] w.k = "ext" -> _ext_hook(self, w.n, w.s, st)
      [] OTHER -> Fail(st)

\* the elements of an array, or the keys and values of a map (pairs = TRUE)
unpack_items(self, items, i, st, pairs) ==
    IF i > Len(items)
    THEN Ok(st, <<>>)
    ELSE LET r == unpack(self, items[i], st) IN
         IF ~r.ok THEN r
         ELSE IF pairs /\ i % 2 = 1 /\ r.out.k \notin {"str", "bytes"} THEN Fail(r.st)
         ELSE LET rest == unpack_items(self, items, i + 1, r.st, pairs) IN
              IF rest.ok THEN Ok(rest.st, <<r.out>> \o rest.out) ELSE rest

\* mutant: an index outside the table yields None instead of raising
handle_intern_reference_missing_is_none(bytes, st) ==
    IF Len(bytes) # 1 \/ ~RawOk(bytes[1])
    THEN Fail(st)
    ELSE LET ref_index == bytes[1] IN
         IF st.table = 0 THEN Fail(st)
         ELSE IF ref_index.k # "integer" THEN Fail(st)
         ELSE IF ref_index.n >= Len(st.heap[st.table].table) \/ ref_index.n < 0
         THEN Ok(st, PyNone)
         ELSE Ok(st, st.heap[st.table].table[ref_index.n + 1])

\* mutant: a negative index counts from the end of the table, as an index
\* into a Python list does
handle_intern_reference_from_end(bytes, st) ==
    IF Len(bytes) # 1 \/ ~RawOk(bytes[1])
    THEN Fail(st)
    ELSE LET ref_index == bytes[1] IN
         IF st.table = 0 THEN Fail(st)
         ELSE IF ref_index.k # "integer" THEN Fail(st)
         ELSE IF ref_index.n >= Len(st.heap[st.table].table) THEN Fail(st)
         ELSE IF ref_index.n < 0
         THEN IF -ref_index.n > Len(st.heap[st.table].table) THEN Fail(st)
              ELSE Ok(st, st.heap[st.table].table[
                              Len(st.heap[st.table].table) + ref_index.n + 1])
         ELSE Ok(st, st.heap[st.table].table[ref_index.n + 1])

\* InternContext.handle_intern_reference
handle_intern_reference(bytes, st) ==
    IF Len(bytes) # 1 \/ ~RawOk(bytes[1])
    THEN Fail(st)                             \* msgpack.unpackb(data) raises
    ELSE LET ref_index == bytes[1] IN
         IF st.table = 0 THEN Fail(st)
         ELSE IF ref_index.k # "integer" THEN Fail(st)     \* TypeError on >=
         ELSE IF ref_index.n >= Len(st.heap[st.table].table) THEN Fail(st)
         ELSE IF ref_index.n < 0 THEN Fail(st)             \* InternTable.__getitem__
         ELSE Ok(st, st.heap[st.table].table[ref_index.n + 1])

\* mutant: the slot of an entry is appended before the entry is unpacked
load_reserving(self, entries, i, st) ==
    IF i > Len(entries)
    THEN Ok(st, PyNone)
    ELSE LET st1 == [st EXCEPT !.heap[st.table].table = Append(@, PyNone)]
             r == unpack(self, entries[i], st1)
         IN  IF ~r.ok THEN r
             ELSE load(self, entries, i + 1,
                       [r.st EXCEPT !.heap[r.st.table].table[i] = r.out])

\* InternTable.load from entry i on: each entry is unpacked with the hook and
\* appended to the table the context holds
load(self, entries, i, st) ==
    IF i > Len(entries)
    THEN Ok(st, PyNone)
    ELSE LET r == unpack(self, entries[i], st) IN
         IF ~r.ok THEN r
         ELSE load(self, entries, i + 1,
                   [r.st EXCEPT !.heap[r.st.table].table = Append(@, r.out)])

\* mutant: no try/finally, an exception leaves the table in place
decode_intern_table_unscoped(self, bytes, st) ==
    IF bytes = <<>> \/ ~RawOk(bytes[1])
    THEN Fail(st)
    ELSE LET interned_objects_bytes == bytes[1]
             data_bytes == Tail(bytes)
             s == start_table(st)
         IN  IF ~s.ok THEN s
             ELSE IF interned_objects_bytes.k # "array"
             THEN Fail(s.st)
             ELSE LET l == load(self, interned_objects_bytes.s, 1, s.st) IN
                  IF ~l.ok THEN l
                  ELSE LET result == unpackb(self, data_bytes, l.st) IN
                       IF ~result.ok THEN result
                       ELSE Ok(end_table(result.st), result.out)

\* InternContext.decode_intern_table
decode_intern_table(self, bytes, st) ==
    IF bytes = <<>> \/ ~RawOk(bytes[1])
    THEN Fail(st)                             \* unpacker.unpack() raises
    ELSE LET interned_objects_bytes == bytes[1]
             data_bytes == Tail(bytes)
             s == start_table(st)
         IN  IF ~s.ok THEN s
             ELSE IF interned_objects_bytes.k # "array"
             THEN Fail(end_table(s.st))       \* read_array_header raises
             ELSE LET l == load(self, interned_objects_bytes.s, 1, s.st) IN
                  IF ~l.ok THEN FailWith(end_table(l.st), l.out)
                  ELSE LET result == unpackb(self, data_bytes, l.st) IN
                       IF ~result.ok THEN FailWith(end_table(result.st), result.out)
                       ELSE Ok(end_table(result.st), result.out)

NamespaceIndex(self, name) ==
    IF \E i \in 1..Len(self.namespaces) : self.namespaces[i].name = name
    THEN CHOOSE i \in 1..Len(self.namespaces) : self.namespaces[i].name = name
    ELSE 0

\* what msgpack decodes to a list or a dict cannot be looked up in a dict
Unhashable(w) == w.k \in {"array", "map"}

\* mutant: a record whose namespace or type id is not known is handed back
\* as an ExtType
decode_custom_type_lenient(self, bytes, st) ==
    IF Len(bytes) < 2 \/ ~RawOk(bytes[1]) \/ ~RawOk(bytes[2])
    THEN Fail(st)
    ELSE LET namespace == bytes[1]
             type_id == bytes[2]
             remaining_data == SubSeq(bytes, 3, Len(bytes))
             ns == IF namespace.k = "string" THEN NamespaceIndex(self, namespace.n) ELSE 0
         IN  IF Unhashable(namespace) THEN Fail(st)
             ELSE IF ns = 0 THEN Ok(st, ExtType(CUSTOM_TYPE_EXT, bytes))
             ELSE LET types == self.namespaces[ns] IN
                  IF types.catchall
                  THEN LET v == loads_(self, remaining_data, st) IN
                       IF ~v.ok THEN v ELSE Ok(v.st, Object(types.decodes, v.out))
                  ELSE IF Unhashable(type_id) THEN Fail(st)
                  ELSE IF type_id.k # "integer" \/ ~HasKey(types.types, type_id.n)
                  THEN Ok(st, ExtType(CUSTOM_TYPE_EXT, bytes))
                  ELSE LET v == loads_(self, remaining_data, st) IN
                       IF ~v.ok THEN v
                       ELSE Ok(v.st, Object(DictGet(types.types, type_id.n), v.out))

\* mutant: a catch-all namespace takes the records with type id 0 only
decode_custom_type_zero_only(self, bytes, st) ==
    IF Len(bytes) < 2 \/ ~RawOk(bytes[1]) \/ ~RawOk(bytes[2])
    THEN Fail(st)
    ELSE LET namespace == bytes[1]
             type_id == bytes[2]
             remaining_data == SubSeq(bytes, 3, Len(bytes))
             ns == IF namespace.k = "string" THEN NamespaceIndex(self, namespace.n) ELSE 0
         IN  IF Unhashable(namespace) THEN Fail(st)
             ELSE IF ns = 0 THEN FailWith(st, UnknownNamespace)
             ELSE LET types == self.namespaces[ns] IN
                  IF types.catchall
                  THEN IF type_id # Integer(0) THEN FailWith(st, UnknownTypeId)
                       ELSE LET v == loads_(self, remaining_data, st) IN
                            IF ~v.ok THEN v ELSE Ok(v.st, Object(types.decodes, v.out))
                  ELSE IF Unhashable(type_id) THEN Fail(st)
                  ELSE IF type_id.k # "integer" \/ ~HasKey(types.types, type_id.n)
                  THEN FailWith(st, UnknownTypeId)
                  ELSE LET v == loads_(self, remaining_data, st) IN
                       IF ~v.ok THEN v
                       ELSE Ok(v.st, Object(DictGet(types.types, type_id.n), v.out))

\* the CUSTOM_TYPE_EXT branch of Codec._ext_hook, with the decoder of the
\* tests, T(dec.loads(data))
decode_custom_type(self, bytes, st) ==
    IF Len(bytes) < 2 \/ ~RawOk(bytes[1]) \/ ~RawOk(bytes[2])
    THEN Fail(st)                             \* next(unpacker) raises
    ELSE LET namespace == bytes[1]
             type_id == bytes[2]
             remaining_data == SubSeq(bytes, 3, Len(bytes))
             ns == IF namespace.k = "string" THEN NamespaceIndex(self, namespace.n) ELSE 0
         IN  IF Unhashable(namespace) THEN Fail(st)        \* TypeError on "in"
             ELSE IF ns = 0 THEN FailWith(st, UnknownNamespace)
             ELSE LET types == self.namespaces[ns] IN
                  IF types.catchall
                  THEN LET v == loads_(self, remaining_data, st) IN
                       IF ~v.ok THEN v ELSE Ok(v.st, Object(types.decodes, v.out))
                  ELSE IF Unhashable(type_id) THEN Fail(st)    \* TypeError on "in"
                  ELSE IF type_id.k # "integer" \/ ~HasKey(types.types, type_id.n)
                  THEN FailWith(st, UnknownTypeId)
                  ELSE LET v == loads_(self, remaining_data, st) IN
                       IF ~v.ok THEN v
                       ELSE Ok(v.st, Object(DictGet(types.types, type_id.n), v.out))

\* mutant: the two forms of INTERN_TABLE_EXT are told apart by the shape of
\* the payload instead of by the state of the context
_ext_hook_by_shape(self, code, bytes, st) ==
    IF code = INTERN_TABLE_EXT
    THEN IF is_active(st) /\ Len(bytes) = 1 /\ bytes[1].k = "integer"
         THEN handle_intern_reference(bytes, st)
         ELSE LET r == decode_intern_table(self, bytes, [st EXCEPT !.active = FALSE]) IN
              [r EXCEPT !.st = IF st.active
                               THEN [r.st EXCEPT !.active = TRUE, !.table = st.table]
                               ELSE r.st]
    ELSE IF code = CUSTOM_TYPE_EXT
    THEN decode_custom_type(self, bytes, st)
    ELSE Ok(st, ExtType(code, bytes))

\* mutant: every code but INTERN_TABLE_EXT is taken for a custom type
_ext_hook_all_custom(self, code, bytes, st) ==
    IF code = INTERN_TABLE_EXT
    THEN IF is_active(st)
         THEN handle_intern_reference(bytes, st)
         ELSE decode_intern_table(self, bytes, st)
    ELSE decode_custom_type(self, bytes, st)

\* Codec._ext_hook
_ext_hook(self, code, bytes, st) ==
    IF code = INTERN_TABLE_EXT
    THEN IF is_active(st)
         THEN handle_intern_reference(bytes, st)
         ELSE decode_intern_table(self, bytes, st)
    ELSE IF code = CUSTOM_TYPE_EXT
    THEN decode_custom_type(self, bytes, st)
    ELSE Ok(st, ExtType(code, bytes))

\* mutant: loads ends a table it finds in the context, as dumps does
loads_closing(self, bytes, st) ==
    unpackb(self, bytes, IF st.active THEN end_table(st) ELSE st)

\* Codec.loads
loads_(self, bytes, st) == unpackb(self, bytes, st)

----------------------------------------------------------------------------
(* The namespace registry.  A namespace is [name, catchall, types, matches, *)
(* decodes]: types is the typed mapping type_id -> py_type (empty for a     *)
(* catch-all), matches the classes a catch-all accepts and decodes the      *)
(* class its decode builds.                                                 *)

\* a NamespaceModule after its encoder/decoder decorators ran; codecs holds a
\* [py_type, type_id] for each, in order
NamespaceModule(name, codecs) == [name |-> name, codecs |-> codecs]

TypedMapping(name, types) ==
    [name |-> name, catchall |-> FALSE, types |-> types, matches |-> {}, decodes |-> ""]

\* table_namespace.custom_types() when none of numpy, pandas, polars imports
table_namespace == TypedMapping("table", <<>>)

\* the namespace of test_custom: {1: CustomTypeCodec(py_type=MyType, ...)}
test_namespace == TypedMapping("tobytes.test", <<[key |-> 1, val |-> "MyType"]>>)

RECURSIVE TypeMapOf(_, _, _, _)
TypeMapOf(nss, i, j, acc) ==
    IF i > Len(nss) THEN acc
    ELSE IF nss[i].catchall \/ j > Len(nss[i].types) THEN TypeMapOf(nss, i + 1, 1, acc)
    ELSE TypeMapOf(nss, i, j + 1,
                   DictSet(acc, nss[i].types[j].val,
                           [namespace |-> nss[i].name, type_id |-> nss[i].types[j].key]))

_rebuild_type_map(nss) == TypeMapOf(nss, 1, 1, <<>>)

Self == [namespaces |-> namespaces, _type_map |-> _type_map]

----------------------------------------------------------------------------
(* The values given to dumps and the messages given to loads               *)

MaxLen == 3        \* longest list given to dumps
MaxCopies == 2     \* equal objects at distinct addresses
MaxEntries == 2    \* longest entries array of a hand-built frame
MaxRef == 2        \* largest index of a hand-built reference

SeqsUpTo(S, n) == UNION {[1..m -> S] : m \in 0..n}

Strs == {PyStr("a"), PyStr("b")}

InternsOf(S) ==
    {Intern(v, TRUE, c) : v \in S, c \in 1..MaxCopies} \cup {Intern(v, FALSE, 0) : v \in S}

\* what the longest lists hold
Core ==
    InternsOf({PyStr("a")}) \cup {Intern(PyStr("b"), TRUE, 1)}
    \cup {Intern(PyList(<<Intern(PyStr("a"), TRUE, 1)>>), TRUE, 1)}
    \cup {Object("MyType", PyInt(1))}

\* what the shorter lists hold
Elements ==
    Core \cup {PyInt(1), Object("MyType", Intern(PyStr("a"), TRUE, 1)),
               Intern(Object("MyType", PyInt(1)), TRUE, 1)}

\* no namespace takes a Bob: dumps raises when it reaches one
Unserialisable ==
    {Object("Bob", PyStr("a")), Object("MyType", Object("Bob", PyStr("a"))),
     Intern(PyList(<<Intern(PyStr("a"), TRUE, 1), Object("Bob", PyStr("a"))>>), TRUE, 1)}
    \cup {PyList(<<x, Object("Bob", PyStr("a"))>>) : x \in Core}

Lists ==
    SeqsUpTo(Elements, MaxLen - 1) \cup [1..MaxLen -> Core]

Dicts ==
    {PyDict(<<key, v>>) : key \in {PyStr("a"), PyInt(1), Intern(PyStr("a"), TRUE, 1)},
                          v \in {PyInt(1), Intern(PyStr("b"), TRUE, 1),
                                 Object("MyType", PyInt(1))}}

\* msgpack.ExtType records with a code the codec does not reserve
Foreign ==
    {ExtType(5, <<Ext(INTERN_TABLE_EXT, <<Integer(0)>>)>>),
     PyList(<<ExtType(5, <<Integer(1)>>), ExtType(5, <<Integer(1)>>)>>),
     Intern(ExtType(5, <<Integer(1)>>), TRUE, 1),
     PyDict(<<PyStr("a"), ExtType(7, <<>>)>>)}

Values ==
    {PyList(l) : l \in Lists}
    \cup Elements \cup Unserialisable \cup Strs \cup {PyNone} \cup Dicts \cup Foreign
    \cup {Intern(d, by, 1) : d \in Dicts, by \in BOOLEAN}
    \cup {Intern(PyList(l), by, 1) : l \in SeqsUpTo(Core, MaxLen - 1), by \in BOOLEAN}
    \cup {Object("MyType", PyList(l)) : l \in SeqsUpTo(Core, MaxLen - 1)}

Ref(index) == Ext(INTERN_TABLE_EXT, <<Integer(index)>>)
Frame(entries, body) == Ext(INTERN_TABLE_EXT, <<Array(entries)>> \o body)
Custom(namespace, type_id, payload) ==
    Ext(CUSTOM_TYPE_EXT, <<String(namespace), Integer(type_id)>> \o payload)

Refs == {Ref(i) : i \in (-MaxRef)..MaxRef}

EntryPool ==
    {String("hello"), Ref(0), Array(<<Ref(0)>>), Array(<<Ref(1)>>),
     Map(<<Ref(0), Integer(1)>>),
     Frame(<<String("inner")>>, <<Ref(0)>>),
     Custom("tobytes.test", 1, <<Ref(0)>>),
     Ext(5, <<Ref(0)>>)}

\* what the longest entries arrays hold
EntryCore ==
    {String("hello"), Ref(0), Array(<<Ref(1)>>), Ref(2),
     Frame(<<String("inner")>>, <<Ref(0)>>)}

Entries ==
    SeqsUpTo(EntryPool, MaxEntries - 1) \cup [1..MaxEntries -> EntryCore]

BodyPool ==
    Refs \cup {String("body"), Array(<<Ref(0), Ref(1), Ref(0)>>),
               Map(<<Integer(1), Ref(0)>>), Map(<<String("k"), Ref(1)>>),
               Frame(<<String("inner")>>, <<Ref(0)>>),
               Custom("tobytes.test", 1, <<Ref(1)>>),
               Custom("tobytes.test", 1, <<Frame(<<String("inner")>>, <<Ref(0)>>)>>),
               Custom("tobytes.test", 2, <<Integer(1)>>),
               Custom("nowhere", 1, <<Integer(1)>>),
               Ext(5, <<Ref(0)>>),
               Array(<<Ext(7, <<>>), Ref(0)>>)}

Messages ==
    {<<Frame(e, <<b>>)>> : e \in Entries, b \in BodyPool}
    \cup {<<b>> : b \in BodyPool}
    \cup {<<Frame(e, <<>>)>> : e \in SeqsUpTo(EntryPool, 1)}
    \cup {<<>>, <<Integer(1), Integer(1)>>}
    \cup {<<Frame(<<String("hello"), Custom("tobytes.test", 1, <<Ref(0)>>)>>, <<b>>)>> :
            b \in {Ref(1), Custom("tobytes.test", 1, <<Ref(1)>>)}}

----------------------------------------------------------------------------
(* The codec as a state machine: one caller makes one call at a time.      *)

\* Codec(namespaces={"tobytes.test": {1: CustomTypeCodec(MyType, ...)}})
Init ==
    /\ namespaces = <<table_namespace, test_namespace>>
    /\ _type_map = _rebuild_type_map(<<table_namespace, test_namespace>>)
    /\ _intern_context = [active |-> FALSE, table |-> <<>>]
    /\ op = "idle"
    /\ ok = TRUE
    /\ obj = PyNone
    /\ data = <<>>
    /\ started = 0
    /\ leftover = None
    /\ namespace_module = NamespaceModule("test_namespace", <<>>)

\* the entries of the table a call finds in the context
Leftover(ctx) == IF ctx.table = <<>> THEN None ELSE Len(ctx.table[1].table)

\* Codec.dumps(o)
dumps(o) ==
    /\ op = "idle"
    /\ LET r == dumps_(Self, o, Enter(_intern_context)) IN
       /\ _intern_context' = Leave(r.st)
       /\ ok' = r.ok
       /\ data' = IF r.ok THEN r.out ELSE <<>>
       /\ started' = Len(r.st.heap) - Len(_intern_context.table)
       /\ leftover' = Leftover(_intern_context)
    /\ op' = "dumps"
    /\ obj' = o
    /\ UNCHANGED <<namespaces, _type_map, namespace_module>>

\* Codec.loads(bytes)
loads(bytes) ==
    /\ op = "idle"
    /\ LET r == loads_(Self, bytes, Enter(_intern_context)) IN
       /\ _intern_context' = Leave(r.st)
       /\ ok' = r.ok
       /\ obj' = r.out
       /\ started' = Len(r.st.heap) - Len(_intern_context.table)
       /\ leftover' = Leftover(_intern_context)
    /\ op' = "loads"
    /\ data' = bytes
    /\ UNCHANGED <<namespaces, _type_map, namespace_module>>

\* the caller takes the result (or the exception) and goes on to its next call
next_call ==
    /\ op # "idle"
    /\ op' = "idle"
    /\ ok' = TRUE
    /\ obj' = PyNone
    /\ data' = <<>>
    /\ started' = 0
    /\ leftover' = None
    /\ UNCHANGED <<namespaces, _type_map, _intern_context, namespace_module>>

Next ==
    \/ \E o \in Values : dumps(o)
    \/ \E bytes \in Messages : loads(bytes)
    \/ next_call

Spec == Init /\ [][Next]_vars

----------------------------------------------------------------------------
(* The registry calls, on a codec built with no argument                   *)

MaxNamespaces == 3   \* most namespaces the caller registers at a time

\* a catch-all namespace in the manner of MyCustomNameSpace: matches(obj) is
\* isinstance(obj, T) for the classes in matches, decode builds a decodes
CatchAll(name, matches, decodes) ==
    [name |-> name, catchall |-> TRUE, types |-> <<>>, matches |-> matches,
     decodes |-> decodes]

RECURSIVE custom_types_from(_, _, _)
custom_types_from(codecs, i, result) ==
    IF i > Len(codecs) THEN result
    ELSE custom_types_from(codecs, i + 1,
                           DictSet(result, codecs[i].type_id, codecs[i].py_type))

\* NamespaceModule.custom_types: a new dict on every call
custom_types(module) == TypedMapping(module.name, custom_types_from(module.codecs, 1, <<>>))

\* the NamespaceModule object that table.py builds
table_module == NamespaceModule("table", <<>>)

\* the module of test_namespace.py, and another module with its name
mod == NamespaceModule("test_namespace", <<[py_type |-> "Bob", type_id |-> 1]>>)
mod_again == NamespaceModule("test_namespace", <<[py_type |-> "Bill", type_id |-> 1]>>)

Modules == {table_module, mod, mod_again}

\* the dicts and catch-alls given to add_namespace, under the name given
NamespaceArgs ==
    {TypedMapping("tobytes.test", <<[key |-> 1, val |-> "MyType"]>>),
     TypedMapping("tobytes.other", <<[key |-> 1, val |-> "MyType"]>>),
     TypedMapping("tobytes.twice", <<[key |-> 1, val |-> "AnotherType"],
                                     [key |-> 2, val |-> "AnotherType"]>>),
     CatchAll("tobytes.test.custom", {"AnotherType"}, "AnotherType"),
     CatchAll("tobytes.test.bills", Subclasses("Bill"), "Bill"),
     TypedMapping("table", <<[key |-> 1, val |-> "MyType"]>>)}

RegistryValues ==
    {Object(c, v) : c \in {"MyType", "AnotherType", "Bob", "Bill"},
                    v \in {PyInt(1), PyStr("a")}}
    \cup {PyInt(1), PyList(<<Object("MyType", PyInt(1)), Object("Bob", PyStr("a"))>>),
          PyDict(<<PyStr("a"), Object("AnotherType", PyInt(1))>>)}

RegistryMessages ==
    {<<Custom(name, type_id, <<Integer(1)>>)>> :
        name \in {"table", "tobytes.test", "tobytes.twice", "tobytes.test.custom",
                  "test_namespace"},
        type_id \in 0..2}
    \cup {<<Integer(1)>>, <<Custom("tobytes.test", 1, <<>>)>>}
    \cup {<<Custom(name, 2, <<Frame(<<String("inner")>>, <<Ref(0)>>)>>)>> :
            name \in {"tobytes.test", "nowhere"}}

\* Codec()
InitRegistry ==
    /\ namespaces = <<table_namespace>>
    /\ _type_map = _rebuild_type_map(<<table_namespace>>)
    /\ _intern_context = [active |-> FALSE, table |-> <<>>]
    /\ op = "idle"
    /\ ok = TRUE
    /\ obj = PyNone
    /\ data = <<>>
    /\ started = 0
    /\ leftover = None
    /\ namespace_module = NamespaceModule("test_namespace", <<>>)

\* self.namespaces[name] = types
SetNamespace(nss, name, types) ==
    LET entry == [types EXCEPT !.name = name] IN
    IF \E i \in 1..Len(nss) : nss[i].name = name
    THEN [i \in 1..Len(nss) |-> IF nss[i].name = name THEN entry ELSE nss[i]]
    ELSE Append(nss, entry)

\* mutant: a registered name is overwritten instead of refused
add_namespace_overwriting(namespace, types) ==
    /\ op = "idle"
    /\ NamespaceIndex(Self, namespace) # 0 \/ Len(namespaces) < MaxNamespaces
    /\ namespaces' = SetNamespace(namespaces, namespace, types)
    /\ _type_map' = _rebuild_type_map(namespaces')
    /\ ok' = TRUE
    /\ op' = "add_namespace"
    /\ obj' = [types EXCEPT !.name = namespace]
    /\ data' = <<>>
    /\ started' = 0
    /\ leftover' = None
    /\ UNCHANGED <<_intern_context, namespace_module>>

\* Codec.add_namespace(namespace, types)
add_namespace(namespace, types) ==
    /\ op = "idle"
    /\ NamespaceIndex(Self, namespace) # 0 \/ Len(namespaces) < MaxNamespaces
    /\ IF NamespaceIndex(Self, namespace) # 0
       THEN /\ ok' = FALSE                       \* ValueError
            /\ UNCHANGED <<namespaces, _type_map>>
       ELSE /\ namespaces' = SetNamespace(namespaces, namespace, types)
            /\ _type_map' = _rebuild_type_map(namespaces')
            /\ ok' = TRUE
    /\ op' = "add_namespace"
    /\ obj' = [types EXCEPT !.name = namespace]
    /\ data' = <<>>
    /\ started' = 0
    /\ leftover' = None
    /\ UNCHANGED <<_intern_context, namespace_module>>

\* mutant: the namespace is stored and the index on concrete types left as
\* it was
add_module_stale_index(module) ==
    /\ op = "idle"
    /\ NamespaceIndex(Self, module.name) # 0 \/ Len(namespaces) < MaxNamespaces
    /\ IF /\ NamespaceIndex(Self, module.name) # 0
          /\ namespaces[NamespaceIndex(Self, module.name)] # module
       THEN /\ ok' = FALSE
            /\ UNCHANGED <<namespaces, _type_map>>
       ELSE /\ namespaces' = SetNamespace(namespaces, module.name, custom_types(module))
            /\ UNCHANGED _type_map
            /\ ok' = TRUE
    /\ op' = "add_module"
    /\ obj' = module
    /\ data' = <<>>
    /\ started' = 0
    /\ leftover' = None
    /\ UNCHANGED <<_intern_context, namespace_module>>

\* Codec.add_module(module).  What the registry holds under the name is the
\* dict an earlier custom_types() call returned (or what add_namespace was
\* given), and the test "is not module" compares that object with the module.
add_module(module) ==
    /\ op = "idle"
    /\ NamespaceIndex(Self, module.name) # 0 \/ Len(namespaces) < MaxNamespaces
    /\ IF /\ NamespaceIndex(Self, module.name) # 0
          /\ namespaces[NamespaceIndex(Self, module.name)] # module
       THEN /\ ok' = FALSE                       \* ValueError
            /\ UNCHANGED <<namespaces, _type_map>>
       ELSE /\ namespaces' = SetNamespace(namespaces, module.name, custom_types(module))
            /\ _type_map' = _rebuild_type_map(namespaces')
            /\ ok' = TRUE
    /\ op' = "add_module"
    /\ obj' = module
    /\ data' = <<>>
    /\ started' = 0
    /\ leftover' = None
    /\ UNCHANGED <<_intern_context, namespace_module>>

\* mutant: the registry is emptied and the index on concrete types kept
clear_namespaces_stale_index ==
    /\ op = "idle"
    /\ namespaces' = <<>>
    /\ UNCHANGED _type_map
    /\ op' = "clear_namespaces"
    /\ ok' = TRUE
    /\ obj' = PyNone
    /\ data' = <<>>
    /\ started' = 0
    /\ leftover' = None
    /\ UNCHANGED <<_intern_context, namespace_module>>

\* Codec.clear_namespaces()
clear_namespaces ==
    /\ op = "idle"
    /\ namespaces' = <<>>
    /\ _type_map' = _rebuild_type_map(namespaces')
    /\ op' = "clear_namespaces"
    /\ ok' = TRUE
    /\ obj' = PyNone
    /\ data' = <<>>
    /\ started' = 0
    /\ leftover' = None
    /\ UNCHANGED <<_intern_context, namespace_module>>

NextRegistry ==
    \/ \E types \in NamespaceArgs : add_namespace(types.name, types)
    \/ \E module \in Modules : add_module(module)
    \/ clear_namespaces
    \/ \E o \in RegistryValues : dumps(o)
    \/ \E bytes \in RegistryMessages : loads(bytes)
    \/ next_call

SpecRegistry == InitRegistry /\ [][NextRegistry]_vars

----------------------------------------------------------------------------
(* Building a NamespaceModule, as test_namespace.py does before add_module  *)

MaxTypeId == 2   \* largest type id the caller registers

PyTypes == {"Bob", "Bill"}

ModuleValues == {Object(c, PyStr("a")) : c \in PyTypes}

ModuleMessages ==
    {<<Custom("test_namespace", type_id, <<String("a")>>)>> : type_id \in 1..MaxTypeId}

\* mutant: the id is compared with the id of the last entry only
_check_unique_id_last_only(codecs, type_id) ==
    codecs = <<>> \/ codecs[Len(codecs)].type_id # type_id

\* NamespaceModule._check_unique_id: TRUE when it returns, FALSE when it
\* raises ValueError
_check_unique_id(codecs, type_id) ==
    \A i \in 1..Len(codecs) : codecs[i].type_id # type_id

\* NamespaceModule.encoder(py_type, type_id), on the module the caller builds
encoder(py_type, type_id) ==
    /\ op = "idle"
    /\ IF _check_unique_id(namespace_module.codecs, type_id)
       THEN /\ namespace_module' = [namespace_module EXCEPT !.codecs =
                              Append(@, [py_type |-> py_type, type_id |-> type_id])]
            /\ ok' = TRUE
       ELSE /\ ok' = FALSE
            /\ UNCHANGED namespace_module
    /\ op' = "encoder"
    /\ obj' = [py_type |-> py_type, type_id |-> type_id]
    /\ data' = <<>>
    /\ started' = 0
    /\ leftover' = None
    /\ UNCHANGED <<namespaces, _type_map, _intern_context>>

\* NamespaceModule.decoder(py_type, type_id)
decoder(py_type, type_id) ==
    /\ op = "idle"
    /\ IF _check_unique_id(namespace_module.codecs, type_id)
       THEN /\ namespace_module' = [namespace_module EXCEPT !.codecs =
                              Append(@, [py_type |-> py_type, type_id |-> type_id])]
            /\ ok' = TRUE
       ELSE /\ ok' = FALSE
            /\ UNCHANGED namespace_module
    /\ op' = "decoder"
    /\ obj' = [py_type |-> py_type, type_id |-> type_id]
    /\ data' = <<>>
    /\ started' = 0
    /\ leftover' = None
    /\ UNCHANGED <<namespaces, _type_map, _intern_context>>

NextModule ==
    \/ \E py_type \in PyTypes, type_id \in 1..MaxTypeId : encoder(py_type, type_id)
    \/ \E py_type \in PyTypes, type_id \in 1..MaxTypeId : decoder(py_type, type_id)
    \/ add_module(namespace_module)
    \/ \E o \in ModuleValues : dumps(o)
    \/ \E bytes \in ModuleMessages : loads(bytes)
    \/ next_call

SpecModule == InitRegistry /\ [][NextModule]_vars

----------------------------------------------------------------------------
(* Vocabulary of the properties                                            *)

\* the kinds of the nodes of a value
RECURSIVE Kinds(_)
Kinds(v) == {v.k} \cup UNION {Kinds(v.s[i]) : i \in 1..Len(v.s)}

\* a value with every Intern wrapper replaced by its payload
RECURSIVE Logical(_)
Logical(v) ==
    CASE v.k = "Intern" -> Logical(v.s[1])
      [] v.k \in {"list", "dict"} -> Node(v.k, 0, [i \in 1..Len(v.s) |-> Logical(v.s[i])])
      [] v.k = "object" -> Object(v.n, Logical(v.s[1]))
      [] OTHER -> v

Primitives == {"None", "int", "str", "list", "dict"}

\* the loads call a caller makes next on this codec with the bytes in data
Reload == loads_(Self, data, Enter(_intern_context))

IsRefForm(w) == w.k = "ext" /\ w.n = INTERN_TABLE_EXT /\ Len(w.s) = 1 /\ w.s[1].k = "integer"

IsFrameForm(w) == w.k = "ext" /\ w.n = INTERN_TABLE_EXT /\ Len(w.s) >= 1 /\ w.s[1].k = "array"

IsCustom(w) == w.k = "ext" /\ w.n = CUSTOM_TYPE_EXT /\ Len(w.s) >= 2

\* the indices of the reference forms in a wire value, met through arrays and
\* maps and, when custom is TRUE, through the payloads of CUSTOM_TAG records
RECURSIVE RefIndices(_, _)
RefIndices(w, custom) ==
    IF IsRefForm(w) THEN {w.s[1].n}
    ELSE IF w.k \in {"array", "map"}
    THEN UNION {RefIndices(w.s[i], custom) : i \in 1..Len(w.s)}
    ELSE IF custom /\ IsCustom(w)
    THEN UNION {RefIndices(w.s[i], custom) : i \in 3..Len(w.s)}
    ELSE {}

\* a frame form met through arrays, maps and CUSTOM_TAG payloads
RECURSIVE HasFrame(_)
HasFrame(w) ==
    \/ IsFrameForm(w)
    \/ w.k \in {"array", "map"} /\ \E i \in 1..Len(w.s) : HasFrame(w.s[i])
    \/ IsCustom(w) /\ \E i \in 3..Len(w.s) : HasFrame(w.s[i])

\* data is one frame-form record: its entries and the bytes after them
IsFrameMessage == Len(data) = 1 /\ IsFrameForm(data[1])
FrameEntries == data[1].s[1].s
FrameBody == Tail(data[1].s)

\* the classes of the objects in a value
RECURSIVE Classes(_)
Classes(v) ==
    (IF v.k = "object" THEN {v.n} ELSE {})
    \cup UNION {Classes(v.s[i]) : i \in 1..Len(v.s)}

\* a wire value made of nil, integers, strings, arrays, maps and reference forms
RECURSIVE PlainOrRef(_)
PlainOrRef(w) ==
    \/ IsRefForm(w)
    \/ w.k \in {"nil", "integer", "string"}
    \/ w.k \in {"array", "map"} /\ \A i \in 1..Len(w.s) : PlainOrRef(w.s[i])

\* what such a value stands for, given the values of the entries before it
RECURSIVE Resolved(_, _)
Resolved(w, entries) ==
    CASE IsRefForm(w) -> entries[w.s[1].n + 1]
      [] w.k = "nil" -> PyNone
      [] w.k = "integer" -> PyInt(w.n)
      [] w.k = "string" -> PyStr(w.n)
      [] w.k = "array" -> PyList([i \in 1..Len(w.s) |-> Resolved(w.s[i], entries)])
      [] w.k = "map" -> PyDict([i \in 1..Len(w.s) |-> Resolved(w.s[i], entries)])

RECURSIVE ResolvedEntries(_, _)
ResolvedEntries(ws, entries) ==
    IF ws = <<>> THEN entries
    ELSE ResolvedEntries(Tail(ws), Append(entries, Resolved(Head(ws), entries)))

\* data is a frame of primitives and back-references only
ValidFrame ==
    /\ IsFrameMessage
    /\ Len(FrameBody) = 1
    /\ \A i \in 1..Len(FrameEntries) :
          /\ PlainOrRef(FrameEntries[i])
          /\ \A k \in RefIndices(FrameEntries[i], FALSE) : 0 <= k /\ k < i - 1
    /\ PlainOrRef(FrameBody[1])
    /\ \A k \in RefIndices(FrameBody[1], FALSE) : 0 <= k /\ k < Len(FrameEntries)

----------------------------------------------------------------------------
(* Properties                                                              *)

\* C1 (as claimed): Intern idempotence.  Whenever dumps was given a value
\* built from MessagePack primitives and Intern wrappers (either mode, nested
\* or not), it returns bytes that loads decodes to the value with every
\* wrapper replaced by its payload.
C1_InternIdempotence ==
    (op = "dumps" /\ Kinds(obj) \subseteq Primitives \cup {"Intern"})
        => ok /\ Reload.ok /\ Reload.out = Logical(obj)

\* C2 (as claimed): interleaving.  Whenever dumps was given a value that holds
\* both Intern wrappers and values of a registered custom type, whose codec
\* re-enters dumps and loads, in any relative position, loads decodes the
\* bytes dumps returned to the logical value.
C2_InterleavedRoundTrip ==
    (/\ op = "dumps"
     /\ Kinds(obj) \subseteq Primitives \cup {"Intern", "object"}
     /\ {"Intern", "object"} \subseteq Kinds(obj)
     /\ \A c \in Classes(obj) : HasKey(_type_map, c))
        => ok /\ Reload.ok /\ Reload.out = Logical(obj)

\* C3 (as claimed): scoped teardown on encode.  When a dumps call that had
\* started an intern table raised, the context is inactive and holds no
\* table, so that the next call starts in S0.
C3_TeardownOnEncodeError ==
    (op = "dumps" /\ ~ok /\ started >= 1)
        => ~_intern_context.active /\ _intern_context.table = <<>>

\* C4 (as claimed): scoped teardown on decode.  After every loads call,
\* returned or raised, the context is inactive and holds no table.
C4_TeardownOnDecode ==
    op = "loads" => ~_intern_context.active /\ _intern_context.table = <<>>

\* C5 (as claimed): topological order.  In every frame dumps returns, a
\* reference inside entry i names an index below i and a reference in the
\* body names an index below the number of entries.
C5_TopologicalOrder ==
    (op = "dumps" /\ ok /\ IsFrameMessage)
        => /\ \A i \in 1..Len(FrameEntries) :
                \A k \in RefIndices(FrameEntries[i], FALSE) : k < i - 1
           /\ \A j \in 1..Len(FrameBody) :
                \A k \in RefIndices(FrameBody[j], FALSE) : k < Len(FrameEntries)

\* entry i of the frame in data holds a reference to itself or to a later entry
ForwardReference(i) ==
    \E k \in RefIndices(FrameEntries[i], TRUE) : k >= i - 1

\* C6: forward references are rejected while the table is loading.  A loads
\* of a frame in which some entry i holds a reference with index k >= i raises,
\* also when k is below the number of entries of the frame.
C6_ForwardReferenceRejected ==
    (op = "loads" /\ IsFrameMessage
     /\ \E i \in 1..Len(FrameEntries) : ForwardReference(i))
        => ~ok /\ obj = Raised

\* a frame decoded from S0 raised on a forward reference that names an
\* index below the number of entries
C6_Witness ==
    /\ op = "loads" /\ IsFrameMessage /\ started = 1 /\ ~ok
    /\ ~_intern_context.active
    /\ \E i \in 1..Len(FrameEntries) :
          \E k \in RefIndices(FrameEntries[i], TRUE) : k >= i - 1 /\ k < Len(FrameEntries)
    /\ \A i \in 1..Len(FrameEntries) : ~HasFrame(FrameEntries[i])

\* C7 (as claimed): frame decoding resolves back-references.  A loads of a
\* frame of primitives in which every reference in entry i names some j < i
\* and every reference in the body names some k < n returns the body with
\* every reference replaced by the value of the entry it names.
C7_FrameResolves ==
    (op = "loads" /\ ValidFrame)
        => ok /\ obj = Resolved(FrameBody[1], ResolvedEntries(FrameEntries, <<>>))

\* C8: nested frames are rejected.  A loads of a frame that holds a frame
\* form inside an entry or inside the body raises, and the call starts no
\* second table.
C8_NestedFrameRejected ==
    (op = "loads" /\ IsFrameMessage
     /\ \/ \E i \in 1..Len(FrameEntries) : HasFrame(FrameEntries[i])
        \/ \E j \in 1..Len(FrameBody) : HasFrame(FrameBody[j]))
        => ~ok /\ obj = Raised /\ started <= 1

\* a frame decoded from S0 loaded its entries and raised on the frame form
\* in its body
C8_Witness ==
    /\ op = "loads" /\ IsFrameMessage /\ started = 1 /\ ~ok
    /\ ~_intern_context.active
    /\ FrameEntries = <<String("hello")>>
    /\ Len(FrameBody) = 1 /\ HasFrame(FrameBody[1])

\* C9: an out-of-range reference in the body is rejected.  A loads of a
\* frame with n entries whose body holds a reference with index k >= n raises
\* and returns no value.
C9_BodyReferenceOutOfRange ==
    (op = "loads" /\ IsFrameMessage
     /\ \E j \in 1..Len(FrameBody) :
           \E k \in RefIndices(FrameBody[j], TRUE) : k >= Len(FrameEntries))
        => ~ok /\ obj = Raised

\* a frame decoded from S0 loaded its one entry and raised on ref(1)
C9_Witness ==
    /\ op = "loads" /\ started = 1 /\ ~ok /\ ~_intern_context.active
    /\ data = <<Frame(<<String("hello")>>, <<Ref(1)>>)>>

\* C10: a stray reference is rejected.  A loads, made while no table is
\* active, of a message that is one reference form with an unsigned index
\* raises, returns no value and leaves the context inactive.
C10_StrayReferenceRejected ==
    [][(/\ op = "idle" /\ ~_intern_context.active
        /\ op' = "loads" /\ Len(data') = 1 /\ IsRefForm(data'[1])
        /\ data'[1].s[1].n >= 0)
       => (/\ ~ok' /\ obj' = Raised
           /\ ~_intern_context'.active /\ _intern_context'.table = <<>>)]_vars

\* loads(ref(0)) from S0 started a table, raised and left S0
C10_Witness ==
    /\ op = "loads" /\ data = <<Ref(0)>> /\ ~ok /\ started = 1
    /\ ~_intern_context.active

\* the Intern wrappers in a value
RECURSIVE Wrappers(_)
Wrappers(v) ==
    (IF v.k = "Intern" THEN {v} ELSE {})
    \cup UNION {Wrappers(v.s[i]) : i \in 1..Len(v.s)}

\* no Intern wrapper sits inside the payload of an object, where the nested
\* dumps call of its encoder would meet it
RECURSIVE PlainObjects(_)
PlainObjects(v) ==
    /\ v.k = "object" => "Intern" \notin Kinds(v.s[1])
    /\ \A i \in 1..Len(v.s) : PlainObjects(v.s[i])

\* C11 (as claimed): dedup by identity.  Whenever dumps returned for a value
\* whose Intern wrappers all compare by identity, the frame holds one entry
\* for each wrapped object, and in a list the occurrences of one object are
\* reference forms with one index.
C11_DedupByIdentity ==
    (/\ op = "dumps" /\ ok
     /\ Wrappers(obj) # {}
     /\ \A w \in Wrappers(obj) : by_identity(w)
     /\ PlainObjects(obj))
        => /\ IsFrameMessage
           /\ Len(FrameEntries) = Cardinality({w.n : w \in Wrappers(obj)})
           /\ Len(FrameBody) = 1
           /\ obj.k = "list" =>
                /\ FrameBody[1].k = "array"
                /\ Len(FrameBody[1].s) = Len(obj.s)
                /\ \A i, j \in 1..Len(obj.s) :
                      (/\ obj.s[i].k = "Intern" /\ obj.s[j].k = "Intern"
                       /\ obj.s[i].n = obj.s[j].n)
                          => /\ IsRefForm(FrameBody[1].s[i])
                             /\ FrameBody[1].s[i] = FrameBody[1].s[j]

\* class c has an entry in a typed mapping, or a catch-all matches it
Registered(c) ==
    \E i \in 1..Len(namespaces) :
        IF namespaces[i].catchall
        THEN c \in namespaces[i].matches
        ELSE \E j \in 1..Len(namespaces[i].types) : namespaces[i].types[j].val = c

\* C12 (as claimed): custom-type round-trip.  Whenever dumps was given a
\* value built from primitives and objects of registered classes, alone or
\* nested in lists and maps, loads decodes the returned bytes to an equal
\* value: objects of the registered classes with equal payloads.
C12_CustomRoundTrip ==
    (/\ op = "dumps"
     /\ Kinds(obj) \subseteq Primitives \cup {"object"}
     /\ "object" \in Kinds(obj)
     /\ \A c \in Classes(obj) : Registered(c))
        => ok /\ Reload.ok /\ Reload.out = obj

\* C13 (as claimed): primitive round-trip.  Whenever dumps was given a value
\* built from None, integers, strings, lists and dicts only, loads decodes
\* the returned bytes to that value.
C13_PrimitiveRoundTrip ==
    (op = "dumps" /\ Kinds(obj) \subseteq Primitives)
        => ok /\ Reload.ok /\ Reload.out = obj

\* C14 (as claimed): wrap decision.  Whenever dumps returned, the bytes are
\* one frame-form record exactly when the value held an Intern wrapper (so
\* that a value was promoted during the call), and a frame holds at least
\* one entry.
C14_WrapDecision ==
    (op = "dumps" /\ ok /\ PlainObjects(obj))
        => /\ IsFrameMessage <=> Wrappers(obj) # {}
           /\ IsFrameMessage => Len(FrameEntries) >= 1

IsForeign(w) == w.k = "ext" /\ w.n \notin {INTERN_TABLE_EXT, CUSTOM_TYPE_EXT}

\* a wire value made of nil, integers, strings, arrays, maps keyed on strings,
\* reference forms and foreign extension records
RECURSIVE PlainRefOrForeign(_)
PlainRefOrForeign(w) ==
    \/ IsRefForm(w)
    \/ IsForeign(w)
    \/ w.k \in {"nil", "integer", "string"}
    \/ w.k = "array" /\ \A i \in 1..Len(w.s) : PlainRefOrForeign(w.s[i])
    \/ w.k = "map" /\ \A i \in 1..Len(w.s) :
          IF i % 2 = 1 THEN w.s[i].k = "string" ELSE PlainRefOrForeign(w.s[i])

\* a foreign extension record at a value position
RECURSIVE HasForeign(_)
HasForeign(w) ==
    \/ IsForeign(w)
    \/ w.k \in {"array", "map"} /\ \E i \in 1..Len(w.s) : HasForeign(w.s[i])

\* what such a value stands for: a foreign record stands for itself
RECURSIVE Passed(_, _)
Passed(w, entries) ==
    CASE IsRefForm(w) -> entries[w.s[1].n + 1]
      [] IsForeign(w) -> ExtType(w.n, w.s)
      [] w.k = "nil" -> PyNone
      [] w.k = "integer" -> PyInt(w.n)
      [] w.k = "string" -> PyStr(w.n)
      [] w.k = "array" -> PyList([i \in 1..Len(w.s) |-> Passed(w.s[i], entries)])
      [] w.k = "map" -> PyDict([i \in 1..Len(w.s) |-> Passed(w.s[i], entries)])

RECURSIVE PassedEntries(_, _)
PassedEntries(ws, entries) ==
    IF ws = <<>> THEN entries
    ELSE PassedEntries(Tail(ws), Append(entries, Passed(Head(ws), entries)))

\* data is a frame of such values, with back-references only, that holds a
\* foreign record in an entry or in the body
ForeignFrame ==
    /\ IsFrameMessage
    /\ Len(FrameBody) = 1
    /\ \A i \in 1..Len(FrameEntries) :
          /\ PlainRefOrForeign(FrameEntries[i])
          /\ \A k \in RefIndices(FrameEntries[i], FALSE) : 0 <= k /\ k < i - 1
    /\ PlainRefOrForeign(FrameBody[1])
    /\ \A k \in RefIndices(FrameBody[1], FALSE) : 0 <= k /\ k < Len(FrameEntries)
    /\ \/ HasForeign(FrameBody[1])
       \/ \E i \in 1..Len(FrameEntries) : HasForeign(FrameEntries[i])

\* a Python value made of foreign ExtType records, in lists, under string
\* keys and in Intern wrappers
RECURSIVE OnlyForeign(_)
OnlyForeign(v) ==
    CASE v.k = "ExtType" -> v.n \notin {INTERN_TABLE_EXT, CUSTOM_TYPE_EXT}
      [] v.k = "list" -> \A i \in 1..Len(v.s) : OnlyForeign(v.s[i])
      [] v.k = "dict" -> \A i \in 1..Len(v.s) :
                            IF i % 2 = 1 THEN v.s[i].k = "str" ELSE OnlyForeign(v.s[i])
      [] v.k = "Intern" -> OnlyForeign(v.s[1])
      [] OTHER -> FALSE

\* C15: foreign extensions pass through.  A loads of one extension record
\* with a code other than 6 and 8 returns the record with its code and
\* payload and leaves the intern context as it was; a loads, from S0, of a
\* frame that holds such records in its entries or body returns them in
\* place and leaves S0; and loads decodes what dumps returns for such
\* records to the records.
C15_ForeignPassThrough ==
    [][/\ (op' = "loads" /\ Len(data') = 1 /\ IsForeign(data'[1]))
            => /\ ok' /\ obj' = ExtType(data'[1].n, data'[1].s)
               /\ _intern_context' = _intern_context
       /\ (~_intern_context.active /\ op' = "loads" /\ ForeignFrame')
            => /\ ok'
               /\ obj' = Passed(FrameBody'[1], PassedEntries(FrameEntries', <<>>))
               /\ _intern_context' = _intern_context
       /\ (op' = "dumps" /\ OnlyForeign(obj'))
            => ok' /\ Reload'.ok /\ Reload'.out = Logical(obj')]_vars

\* a frame decoded from S0 whose one entry is a foreign record, returned
\* through the reference in the body
C15_Witness ==
    /\ op = "loads" /\ ok /\ started = 1 /\ ~_intern_context.active
    /\ data = <<Frame(<<Ext(5, <<Ref(0)>>)>>, <<Ref(0)>>)>>
    /\ obj = ExtType(5, <<Ref(0)>>)

\* the codec as the call in progress leaves it
SelfNext == [namespaces |-> namespaces', _type_map |-> _type_map']

\* the classes a namespace takes
TypesOfNamespace(ns) ==
    IF ns.catchall THEN ns.matches ELSE {ns.types[j].val : j \in 1..Len(ns.types)}

\* on codec self with context ctx, dumps returns for v and loads decodes the
\* bytes to v
RoundTrips(self, ctx, v) ==
    LET d == dumps_(self, v, Enter(ctx)) IN
    /\ d.ok
    /\ LET l == loads_(self, d.out, Enter(Leave(d.st))) IN l.ok /\ l.out = v

\* C16 (as claimed): add_module is idempotent for the same module.  An
\* add_module(m) made while the registry holds, under m's name, the typed
\* mapping of m (stored by an earlier add_module(m), or by the constructor
\* for the default module) returns and leaves the registry and the index as
\* they were.
C16_AddModuleIdempotent ==
    [][(/\ op' = "add_module"
        /\ NamespaceIndex(Self, obj'.name) # 0
        /\ namespaces[NamespaceIndex(Self, obj'.name)] = custom_types(obj'))
          => ok' /\ namespaces' = namespaces /\ _type_map' = _type_map]_vars

\* the typed mappings that hold class c, by position in the registry
TypedFor(c) ==
    {i \in 1..Len(namespaces) :
        /\ ~namespaces[i].catchall
        /\ \E j \in 1..Len(namespaces[i].types) : namespaces[i].types[j].val = c}

\* the CUSTOM_TAG record of the first entry for the class of object o, in
\* insertion order of the namespaces and of the entries of a namespace
FirstMatch(o) ==
    LET i == CHOOSE i \in TypedFor(o.n) : \A i2 \in TypedFor(o.n) : i <= i2
        hits == {j \in 1..Len(namespaces[i].types) : namespaces[i].types[j].val = o.n}
        j == CHOOSE j \in hits : \A j2 \in hits : j <= j2
        payload == IF o.s[1].k = "int" THEN Integer(o.s[1].n) ELSE String(o.s[1].n)
    IN  Custom(namespaces[i].name, namespaces[i].types[j].key, <<payload>>)

\* C17 (as claimed): first match wins.  Whenever dumps was given an object
\* whose class has an entry in one or more typed mappings, it returns the
\* CUSTOM_TAG record of the first such entry.
C17_FirstMatchWins ==
    (/\ op = "dumps" /\ obj.k = "object" /\ obj.s[1].k \in {"int", "str"}
     /\ TypedFor(obj.n) # {})
        => ok /\ data = <<FirstMatch(obj)>>

\* C18: add_namespace(name, ns) raises when name is registered, the default
\* namespace included, and then leaves the registry and the index as they
\* were; otherwise it returns, the registry holds ns under name after the
\* namespaces it held, and dumps returns for an object of each class ns
\* takes.
C18_AddNamespaceDuplicate ==
    [][op' = "add_namespace" =>
         IF NamespaceIndex(Self, obj'.name) # 0
         THEN ~ok' /\ namespaces' = namespaces /\ _type_map' = _type_map
         ELSE /\ ok'
              /\ namespaces' = Append(namespaces, obj')
              /\ \A c \in TypesOfNamespace(obj') :
                    dumps_(SelfNext, Object(c, PyInt(1)), Enter(_intern_context')).ok]_vars

\* add_namespace("table", ...) raised on a codec that holds the default
\* namespace and another one
C18_Witness ==
    /\ op = "add_namespace" /\ ~ok /\ obj.name = "table"
    /\ Len(namespaces) >= 2 /\ namespaces[1] = table_namespace

\* C19: clear_namespaces empties the registry, the default namespace
\* included.  While it is empty every dumps of a value that holds an object
\* raises and every loads of a CUSTOM_TAG record raises; a namespace
\* registered then is taken, and objects of its classes encode and decode
\* again.
C19_ClearNamespaces ==
    [][/\ op' = "clear_namespaces" => ok' /\ namespaces' = <<>> /\ _type_map' = <<>>
       /\ (namespaces = <<>> /\ op' = "dumps" /\ Classes(obj') # {})
            => ~ok' /\ data' = <<>>
       /\ (namespaces = <<>> /\ op' = "loads" /\ Len(data') = 1 /\ IsCustom(data'[1]))
            => ~ok' /\ obj'.k = "<raised>"
       /\ (namespaces = <<>> /\ op' \in {"add_namespace", "add_module"})
            => /\ ok' /\ Len(namespaces') = 1
               /\ \A c \in TypesOfNamespace(namespaces'[1]) :
                     RoundTrips(SelfNext, _intern_context', Object(c, PyInt(1)))]_vars

\* the test namespace was registered on a codec that held no namespace,
\* not even the default one
C19_Witness ==
    /\ op = "add_namespace" /\ ok /\ namespaces = <<obj>>
    /\ obj.name = "tobytes.test"
    /\ RoundTrips(Self, _intern_context, Object("MyType", PyInt(1)))

\* C20: Unserializable.  Whenever dumps was given a value built from
\* primitives and objects, it raised and returned no bytes if the class of
\* some object has no typed-mapping entry and no catch-all that matches, and
\* it returned bytes otherwise, so also once a module with the class was
\* added.
C20_Unserializable ==
    (/\ op = "dumps"
     /\ Kinds(obj) \subseteq Primitives \cup {"object"}
     /\ "object" \in Kinds(obj))
        => IF \A c \in Classes(obj) : Registered(c)
           THEN ok /\ data # <<>>
           ELSE ~ok /\ data = <<>>

\* Bob("a") was encoded by the module of test_namespace.py
C20_Witness ==
    /\ op = "dumps" /\ ok /\ obj = Object("Bob", PyStr("a"))
    /\ \E i \in 1..Len(namespaces) : namespaces[i] = custom_types(mod)
    /\ data = <<Custom("test_namespace", 1, <<String("a")>>)>>

\* data is one CUSTOM_TAG record with a string for its namespace and an
\* integer for its type id
IsCustomMessage ==
    /\ Len(data) = 1 /\ IsCustom(data[1])
    /\ data[1].s[1].k = "string" /\ data[1].s[2].k = "integer"

CustomNamespace == data[1].s[1].n
CustomTypeId == data[1].s[2].n
CustomPayload == SubSeq(data[1].s, 3, Len(data[1].s))

\* C21: decode dispatch errors.  A loads of a CUSTOM_TAG record raises the
\* unknown-namespace error when its namespace string is not registered, and
\* the unknown-type-id error when the namespace is a typed mapping with no
\* entry for the type id; in both cases no value is returned and no decoder
\* ran: the payload was not decoded, so no table was started and the intern
\* context is as the call found it.
C21_DispatchErrors ==
    [][(op' = "loads" /\ IsCustomMessage')
        => LET ns == NamespaceIndex(Self, CustomNamespace') IN
           /\ ns = 0 =>
                /\ ~ok' /\ obj' = UnknownNamespace
                /\ started' = 0 /\ _intern_context' = _intern_context
           /\ (/\ ns # 0 /\ ~namespaces[ns].catchall
               /\ ~HasKey(namespaces[ns].types, CustomTypeId')) =>
                /\ ~ok' /\ obj' = UnknownTypeId
                /\ started' = 0 /\ _intern_context' = _intern_context]_vars

\* a record of the registered test namespace with a type id it does not hold
\* raised before the frame in its payload was decoded
C21_Witness ==
    /\ op = "loads" /\ ~ok /\ obj = UnknownTypeId /\ started = 0
    /\ data = <<Custom("tobytes.test", 2, <<Frame(<<String("inner")>>, <<Ref(0)>>)>>)>>
    /\ NamespaceIndex(Self, "tobytes.test") # 0

\* InternContext(): the context of a codec that made no call yet
FreshContext == [active |-> FALSE, table |-> <<>>]

\* what dumps does for the value in obj on a codec with this registry that
\* made no call yet
FreshDumps == dumps_(Self, obj, Enter(FreshContext))

\* C22: a leftover context is force-closed and calls are isolated.  Whenever
\* dumps was called on a codec whose context held the table of a failed
\* dumps, it did what it does on a codec with the same registry that made no
\* call yet: it returned the same bytes, or raised alike, and left the same
\* context, so that no entry of the earlier call is in the frame and no index
\* is shifted.
C22_LeftoverIsolated ==
    (op = "dumps" /\ leftover # None)
        => /\ ok = FreshDumps.ok
           /\ ok => data = FreshDumps.out
           /\ _intern_context = Leave(FreshDumps.st)

\* dumps returned a frame on a codec whose context held a table with entries
C22_Witness ==
    /\ op = "dumps" /\ ok /\ leftover >= 1
    /\ IsFrameMessage /\ Len(FrameEntries) = 1
    /\ ~_intern_context.active

\* the namespaces that accept object o, by position in the registry: a typed
\* mapping with an entry for its class, a catch-all whose matches is true
Accepting(o) ==
    {i \in 1..Len(namespaces) : o.n \in TypesOfNamespace(namespaces[i])}

\* the CUSTOM_TAG record of the first namespace, in insertion order, that
\* accepts object o: type id 0 for a catch-all, the id of the first entry
\* for the class for a typed mapping
FirstAccepting(o) ==
    LET i == CHOOSE i \in Accepting(o) : \A i2 \in Accepting(o) : i <= i2
        hits == {j \in 1..Len(namespaces[i].types) : namespaces[i].types[j].val = o.n}
        type_id == IF namespaces[i].catchall THEN 0
                   ELSE namespaces[i].types[CHOOSE j \in hits : \A j2 \in hits : j <= j2].key
        payload == IF o.s[1].k = "int" THEN Integer(o.s[1].n) ELSE String(o.s[1].n)
    IN  Custom(namespaces[i].name, type_id, <<payload>>)

\* C23 (as claimed): the index on concrete types is not observable.  Whatever
\* add_namespace, add_module and clear_namespaces calls built the registry,
\* whenever dumps was given an object it returned the CUSTOM_TAG record of
\* the first namespace in insertion order, catch-all or typed mapping, that
\* accepts the object, and raised when none does.
C23_IndexNotObservable ==
    (op = "dumps" /\ obj.k = "object" /\ obj.s[1].k \in {"int", "str"})
        => IF Accepting(obj) = {}
           THEN ~ok
           ELSE ok /\ data = <<FirstAccepting(obj)>>

\* where a wrapper is found among the promoted ones, a sequence of
\* [value, id] with id the identity it was promoted under (<<>> for none):
\* by identity under its id, by equality at the first equal value; 0 when it
\* is not found
Promoted(w, promoted) ==
    LET hits == {i \in 1..Len(promoted) :
                    IF by_identity(w) THEN promoted[i].id = w.n
                    ELSE promoted[i].value = w.s[1]}
    IN  IF hits = {} THEN 0 ELSE CHOOSE i \in hits : \A j \in hits : i <= j

\* the wrappers promoted while a value is packed, in the order their first
\* occurrences complete, depth first: the payload of a wrapper that is not
\* found is visited before the wrapper is appended
RECURSIVE Promotions(_, _), PromotionsOfItems(_, _, _)
Promotions(v, promoted) ==
    IF v.k = "Intern"
    THEN IF Promoted(v, promoted) # 0 THEN promoted
         ELSE Append(Promotions(v.s[1], promoted), [value |-> v.s[1], id |-> v.n])
    ELSE PromotionsOfItems(v.s, 1, promoted)

PromotionsOfItems(items, i, promoted) ==
    IF i > Len(items) THEN promoted
    ELSE PromotionsOfItems(items, i + 1, Promotions(items[i], promoted))

\* C24 (as claimed): entry order on encode.  Whenever dumps returned for a
\* value that holds Intern wrappers, the frame holds one entry for each
\* first occurrence, in the order the first occurrences complete depth
\* first, so that a dedup hit appended nothing; in a list the wrappers are
\* reference forms that name these positions, increasing from one miss to
\* the next; and a reference inside an entry names a smaller index than the
\* entry's own.
C24_EntryOrder ==
    (op = "dumps" /\ ok /\ Wrappers(obj) # {} /\ PlainObjects(obj))
        => /\ IsFrameMessage
           /\ Len(FrameEntries) = Len(Promotions(obj, <<>>))
           /\ Len(FrameBody) = 1
           /\ obj.k = "list" =>
                /\ FrameBody[1].k = "array"
                /\ Len(FrameBody[1].s) = Len(obj.s)
                /\ \A i \in 1..Len(obj.s) :
                      obj.s[i].k = "Intern" =>
                        FrameBody[1].s[i] = Ref(Promoted(obj.s[i], Promotions(obj, <<>>)) - 1)
           /\ \A i \in 1..Len(FrameEntries) :
                 \A k \in RefIndices(FrameEntries[i], FALSE) : k < i - 1

\* the pack pass of dumps for the value in obj, before the wrap: the body
\* bytes it returned and the context it left
Packed == packb(Self, obj, Enter(FreshContext))

\* the entry blobs of the table the pack pass left in the context
PackedTable == Packed.st.heap[Packed.st.table].table

\* C25: wrapped wire layout.  Whenever dumps returned with a table that
\* holds entries, each entry blob is one complete MessagePack value, and the
\* bytes are one extension record with code 6 whose payload is an array of
\* as many elements as the table has entries, the elements being the entry
\* blobs in index order, followed by the body bytes as the pack pass
\* returned them; so the first value of the payload is exactly the entries
\* and the remainder exactly the body.
C25_WrappedLayout ==
    (/\ op = "dumps" /\ ok
     /\ Packed.st.active /\ Packed.st.table # 0 /\ Len(PackedTable) > 0)
        => /\ \A i \in 1..Len(PackedTable) :
                 PackedTable[i].k = "bytes" /\ Len(PackedTable[i].s) = 1
           /\ Len(data) = 1 /\ data[1].k = "ext" /\ data[1].n = INTERN_TABLE_EXT
           /\ Head(data[1].s) = Array([i \in 1..Len(PackedTable) |-> PackedTable[i].s[1]])
           /\ Tail(data[1].s) = Packed.out
           /\ IsFrameMessage
           /\ Len(FrameEntries) = Len(PackedTable)
           /\ FrameBody = Packed.out

\* dumps returned a frame of two different entries, the second an array
\* that refers to the first
C25_Witness ==
    /\ op = "dumps" /\ ok /\ IsFrameMessage
    /\ FrameEntries = <<String("a"), Array(<<Ref(0)>>)>>
    /\ FrameBody = <<Ref(1)>>

\* C26: exact-type matching.  Whenever dumps was given an object whose class
\* has no typed-mapping entry of its own while a class it derives from has
\* one (a Bill while Bob is registered), the object was not encoded through
\* that entry: dumps raised and returned no bytes, unless a catch-all
\* accepts the object, and then it returned the record of the first such
\* catch-all.
C26_ExactType ==
    (/\ op = "dumps" /\ obj.k = "object" /\ obj.s[1].k \in {"int", "str"}
     /\ TypedFor(obj.n) = {}
     /\ \E b \in Bases(obj.n) \ {obj.n} : TypedFor(b) # {})
        => IF Accepting(obj) = {}
           THEN ~ok /\ data = <<>>
           ELSE ok /\ data = <<FirstAccepting(obj)>>

\* dumps raised for a Bill on a codec that holds the module of
\* test_namespace.py, with its entry for Bob
C26_Witness ==
    /\ op = "dumps" /\ ~ok /\ obj = Object("Bill", PyStr("a"))
    /\ \E i \in 1..Len(namespaces) : namespaces[i] = custom_types(mod)

\* C27: catch-all namespaces use type id 0 on the wire and ignore it on
\* decode.  Whenever dumps was given an object that only catch-alls accept,
\* it returned the record of the first of them with type id 0 and the
\* encoded value after it, and every record dumps returns under the name of
\* a catch-all has type id 0.  Whenever loads was given a record that names
\* a catch-all namespace, with whatever type id, the namespace's decode got
\* the remaining bytes: loads returned what decode built from them, and
\* raised only if decode did.
C27_CatchAllTypeId ==
    /\ (/\ op = "dumps" /\ obj.k = "object" /\ obj.s[1].k \in {"int", "str"}
        /\ TypedFor(obj.n) = {} /\ Accepting(obj) # {})
          => /\ ok /\ data = <<FirstAccepting(obj)>>
             /\ CustomTypeId = 0
             /\ namespaces[NamespaceIndex(Self, CustomNamespace)].catchall
    /\ (/\ op = "dumps" /\ ok /\ IsCustomMessage
        /\ namespaces[NamespaceIndex(Self, CustomNamespace)].catchall)
          => CustomTypeId = 0
    /\ (/\ op = "loads" /\ IsCustomMessage
        /\ NamespaceIndex(Self, CustomNamespace) # 0
        /\ namespaces[NamespaceIndex(Self, CustomNamespace)].catchall)
          => LET v == loads_(Self, CustomPayload, Enter(FreshContext)) IN
             IF v.ok
             THEN /\ ok
                  /\ obj = Object(namespaces[NamespaceIndex(Self, CustomNamespace)].decodes,
                                   v.out)
             ELSE ~ok /\ obj = v.out

\* loads returned an AnotherType for a record of the catch-all namespace of
\* test_basic.py with type id 2
C27_Witness ==
    /\ op = "loads" /\ ok
    /\ data = <<Custom("tobytes.test.custom", 2, <<Integer(1)>>)>>
    /\ obj = Object("AnotherType", PyInt(1))

\* no two entries of the module the caller builds share a type id
UniqueTypeIds(m) ==
    \A i, j \in 1..Len(m.codecs) : m.codecs[i].type_id = m.codecs[j].type_id => i = j

\* C28: type ids are unique within a NamespaceModule.  An encoder(py_type,
\* type_id) or decoder(py_type, type_id) registration whose id an entry of
\* the module already has raises and leaves the entry list as it was; any
\* other appends its entry; and after every registration no two entries of
\* the module share a type id.
C28_UniqueTypeIds ==
    [][op' \in {"encoder", "decoder"} =>
         /\ IF \E i \in 1..Len(namespace_module.codecs) :
                  namespace_module.codecs[i].type_id = obj'.type_id
            THEN ~ok' /\ namespace_module' = namespace_module
            ELSE ok' /\ namespace_module'.codecs = Append(namespace_module.codecs, obj')
         /\ namespace_module'.name = namespace_module.name
         /\ UniqueTypeIds(namespace_module')]_vars

\* decoder raised for an id that the first of the two entries of the module
\* holds
C28_Witness ==
    /\ op = "decoder" /\ ~ok
    /\ Len(namespace_module.codecs) = 2
    /\ namespace_module.codecs[1].type_id = obj.type_id
    /\ namespace_module.codecs[2].type_id # obj.type_id

\* the context once loads, called in S0 with the frame in data, has loaded
\* the first n entries
EntriesLoaded(n) ==
    load(Self, SubSeq(FrameEntries, 1, n), 1, start_table(Enter(FreshContext)).st)

\* the CUSTOM_TAG record w is handled in context st, by a decoder that
\* re-enters loads, and the context is then as it was: active or not alike,
\* holding the same table with the same entries
StaysPut(w, st) ==
    LET after == decode_custom_type(Self, w.s, st).st IN
    /\ after.active = st.active
    /\ after.table = st.table
    /\ Leave(after) = Leave(st)

\* C29: custom-type dispatch on decode does not move the intern state.  A
\* loads of one CUSTOM_TAG record leaves the context as it found it:
\* inactive when it was, and active with the same entries when a table was
\* active.  While loads decodes a frame from S0, handling a CUSTOM_TAG
\* record that is an entry, after the entries before it were loaded, or the
\* body, after all entries were loaded, leaves the table active with the
\* entries loaded so far; the decoders re-enter loads on the codec.
C29_DispatchKeepsInternState ==
    /\ (op = "loads" /\ Len(data) = 1 /\ IsCustom(data[1]))
          => /\ StaysPut(data[1], Enter(FreshContext))
             /\ leftover = None => _intern_context = FreshContext
             /\ leftover # None =>
                   /\ _intern_context.active
                   /\ Leftover(_intern_context) = leftover
                   /\ StaysPut(data[1], Enter(_intern_context))
    /\ (op = "loads" /\ leftover = None /\ IsFrameMessage)
          => /\ \A i \in 1..Len(FrameEntries) :
                   (IsCustom(FrameEntries[i]) /\ EntriesLoaded(i - 1).ok)
                      => /\ EntriesLoaded(i - 1).st.active
                         /\ StaysPut(FrameEntries[i], EntriesLoaded(i - 1).st)
             /\ (/\ Len(FrameBody) = 1 /\ IsCustom(FrameBody[1])
                 /\ EntriesLoaded(Len(FrameEntries)).ok)
                   => /\ EntriesLoaded(Len(FrameEntries)).st.active
                      /\ StaysPut(FrameBody[1], EntriesLoaded(Len(FrameEntries)).st)

\* loads, called in S0, returned a MyType for a frame whose body is a
\* CUSTOM_TAG record with a reference to the second entry in its payload
C29_Witness ==
    /\ op = "loads" /\ ok /\ leftover = None /\ IsFrameMessage
    /\ Len(FrameEntries) = 2
    /\ FrameBody = <<Custom("tobytes.test", 1, <<Ref(1)>>)>>
    /\ obj.k = "object" /\ obj.n = "MyType"
    /\ ~_intern_context.active

\* how many entries were appended to the tables of a heap
RECURSIVE Appended(_)
Appended(heap) ==
    IF heap = <<>> THEN 0 ELSE Len(Head(heap).table) + Appended(Tail(heap))

\* the positions in the list in obj of the wrappers that compare by equality
\* and follow a wrapper, of either mode, with an equal payload
EqualityHits ==
    {j \in 1..Len(obj.s) :
        /\ obj.s[j].k = "Intern" /\ ~by_identity(obj.s[j])
        /\ \E i \in 1..(j - 1) : obj.s[i].k = "Intern" /\ obj.s[i].s[1] = obj.s[j].s[1]}

\* C30 (as claimed): equality-mode dedup.  Whenever dumps returned for a
\* list in which a wrapper that compares by equality follows a wrapper, of
\* either mode, with an equal payload: every table the call made has as
\* many originals as entries; the call appended one entry for each first
\* occurrence and nothing for the later wrapper; and that wrapper is the
\* reference form of the lowest-index entry for an equal payload, an entry
\* that encodes the payload.
C30_EqualityDedup ==
    (/\ op = "dumps" /\ ok /\ PlainObjects(obj)
     /\ obj.k = "list" /\ EqualityHits # {})
        => /\ \A t \in 1..Len(Packed.st.heap) :
                 Len(Packed.st.heap[t].originals) = Len(Packed.st.heap[t].table)
           /\ Appended(Packed.st.heap) = Len(Promotions(obj, <<>>))
           /\ IsFrameMessage
           /\ Len(FrameBody) = 1 /\ FrameBody[1].k = "array"
           /\ Len(FrameBody[1].s) = Len(obj.s)
           /\ \A j \in EqualityHits :
                 LET index == Promoted(obj.s[j], Promotions(obj, <<>>)) IN
                 /\ FrameBody[1].s[j] = Ref(index - 1)
                 /\ index <= Len(FrameEntries)
                 /\ "Intern" \notin Kinds(obj.s[j].s[1]) =>
                       <<FrameEntries[index]>>
                          = packb(Self, obj.s[j].s[1], Enter(FreshContext)).out

\* the context of the dumps call for the list in obj once the pack pass has
\* packed the first n elements
ElementsPacked(n) == pack_items(Self, SubSeq(obj.s, 1, n), 1, Enter(FreshContext))

\* the entries of the table the context st holds
EntriesHeld(st) == st.heap[st.table].table

\* element j of the list in obj is an object of a registered class whose
\* encoder runs while the context is active with entries
EncoderInTable(j) ==
    /\ obj.s[j].k = "object" /\ HasKey(_type_map, obj.s[j].n)
    /\ ElementsPacked(j - 1).ok
    /\ ElementsPacked(j - 1).st.active
    /\ Len(EntriesHeld(ElementsPacked(j - 1).st)) >= 1

\* C31 (as claimed): a custom-type encoder that re-enters dumps does not
\* discard the table of the enclosing call.  Whenever dumps was given a list
\* in which an object of a registered class follows Intern wrappers, so
\* that its encoder ran while the context was active with entries, the
\* context after the encoder returned was active with the same table and
\* the same entries; and when dumps returned, the bytes are a frame and
\* every reference form of the body names one of its entries.
C31_NestedDumpsKeepsTable ==
    (op = "dumps" /\ obj.k = "list" /\ PlainObjects(obj))
        => \A j \in 1..Len(obj.s) :
              EncoderInTable(j)
                 => /\ LET before == ElementsPacked(j - 1).st
                           after == packb(Self, obj.s[j], before)
                       IN  /\ after.ok
                           /\ after.st.active
                           /\ after.st.table = before.table
                           /\ EntriesHeld(after.st) = EntriesHeld(before)
                    /\ ok => /\ IsFrameMessage
                             /\ \A b \in 1..Len(FrameBody) :
                                   \A k \in RefIndices(FrameBody[b], FALSE) :
                                      0 <= k /\ k < Len(FrameEntries)

\* C32: a reference form with a negative index never resolves to an entry.
\* A loads of one reference form with a negative index, made while the
\* context holds an active table with entries, raises and returns no value;
\* and so does a loads, from S0, of a frame whose entries load and whose
\* body holds a reference form with a negative index, however many entries
\* the frame has.
C32_NegativeIndexRejected ==
    /\ (/\ op = "loads" /\ leftover # None /\ leftover >= 1
        /\ Len(data) = 1 /\ IsRefForm(data[1]) /\ data[1].s[1].n < 0)
          => /\ ~ok /\ obj = Raised
             /\ _intern_context.active /\ Leftover(_intern_context) = leftover
    /\ (/\ op = "loads" /\ leftover = None /\ IsFrameMessage
        /\ Len(FrameEntries) >= 1
        /\ EntriesLoaded(Len(FrameEntries)).ok
        /\ \E j \in 1..Len(FrameBody) :
              \E k \in RefIndices(FrameBody[j], TRUE) : k < 0)
          => ~ok /\ obj = Raised

\* loads, called in S0, raised for a frame of two entries whose body is the
\* reference form with index -2, the first entry counted from the end
C32_Witness ==
    /\ op = "loads" /\ ~ok /\ leftover = None /\ started = 1
    /\ IsFrameMessage /\ Len(FrameEntries) = 2
    /\ EntriesLoaded(2).ok
    /\ FrameBody = <<Ref(-2)>>

====
